---- MODULE Spec2Model ----
(***************************************************************************)
(* Client-side job orchestration and shared view state of the Chiss        *)
(* dashboard (frontend/src/App.tsx, lib/api.ts, lib/url.ts).               *)
(*                                                                         *)
(* The browser runs one event loop: every action below is one task of that *)
(* loop (a click handler, the continuation of an await, a WebSocket event, *)
(* a timer) or one step of the backend answering a request.                *)
(***************************************************************************)
EXTENDS Integers, Sequences, FiniteSets, TLC

VARIABLES
    jobs,       \* App state: the local job list (useState<JobInfo[]>)
    active,     \* App state: the active job, <<>> for null, <<j>> otherwise
    logs,       \* App state: the log buffer (useState<string[]>)
    stats,      \* App state: orchestrator stats, <<>> for null
    reqs,       \* HTTP requests in flight (awaited promises), a set of records
    nreq,       \* number of HTTP requests issued so far (gives each its id)
    timers,     \* pending setTimeout(refresh, 500) callbacks (a count)
    sockets,    \* every WebSocket created by logsSocket, in creation order
    srv,        \* backend: the authoritative job table, in creation order
    srvNext,    \* backend: the next job id
    delivered,  \* history: lines handed to onmessage since logs was last reset
    lastFetch,  \* history: <<>> or <<f>>, the most recently issued listJobs
    runOutcome, \* history: <<>> or <<o>>, how the last finished run() ended
    nevents,    \* number of clicks, ticks, socket closes, backend moves (bounded)
    mounted,    \* whether App's mount effects have run
    unmounted,  \* whether App's effect cleanups have run
    hist,       \* the session history: the URL of each entry, oldest first
    hidx,       \* the index of the current history entry (window.location)
    tab,        \* App state: the tab shown (useState("discoveries"))
    written,    \* history: per key, the value last given to a setQuery call
                \* since the last navigation (<<>>: none)
    alerted,    \* the message of the last alert() shown, <<>> when none was
    panel,      \* the tab panel mounted under App: <<>> or its tab name
    runs,       \* the run ids the mounted panel lists (hist / runs state)
    sel,        \* MetricsHistory state: the selected run, <<>> for undefined
    detail,     \* MetricsHistory state: <<>> for null, or <<run>>: the detail
                \* shown is that of run
    relRun,     \* ReliabilityPanel state: the selected run, <<>> for ""
    plots,      \* ReliabilityPanel: per plot, <<>> or <<run>>: the run drawn
    storage,    \* localStorage: per storage key, <<>> for null or <<value>>
    settings,   \* SettingsBar: whether it is mounted, and its key input state
    apiCall,    \* the api.ts call last completed: <<>> or <<[fn, resp, out]>>
    writer,     \* history: the panel call that last wrote the view state, <<>> or <<[panel, updates]>>
    wb,         \* Workbench: whether it is mounted, its star and phaseMode state
    reveals,    \* history: the last two scrollToTab calls, each [name, dom, target]
    disc,       \* DiscoveriesTab: whether it is mounted, its list, selected and detail state
    errors      \* history: what became of each error thrown so far, a set of
                \* [at, fate]: at names the throwing call's awaiter, fate is
                \* "caught", "alerted" or "escaped" (an unhandled rejection)

vars == <<jobs, active, logs, stats, reqs, nreq, timers, sockets, srv, srvNext,
          delivered, lastFetch, runOutcome, nevents, mounted, unmounted, hist,
          hidx, tab, written, alerted, errors, panel, runs, sel, detail,
          relRun, plots, storage, settings,
          apiCall,
          writer,
          wb,
          reveals,
          disc>>

appVars == <<jobs, active, logs, stats>>

urlVars == <<mounted, unmounted, hist, hidx, tab, written>>

panelVars == <<panel, runs, sel, detail, relRun, plots>>

credVars == <<storage, settings>>

(***************************************************************************)
(* Bounds of the model                                                     *)
(***************************************************************************)
MaxEvents == 2
MaxMsgs == 1
MaxExtra == 3
MaxHist == 3
MaxReqs == 4

\* App.tsx:62  .slice(-2000)
LogCap == 2000

\* App.tsx:108,143  two of the job types the buttons submit
JobTypes == {"full-pipeline", "train-kepler-strict"}

Terminal == {"completed", "failed", "cancelled"}

(***************************************************************************)
(* Helpers                                                                 *)
(***************************************************************************)
Min(a, b) == IF a < b THEN a ELSE b

\* Array.prototype.slice(-n): the last n elements (all of them if fewer)
SliceLast(s, n) ==
    IF Len(s) <= n THEN s ELSE SubSeq(s, Len(s) - n + 1, Len(s))

\* Response.ok: status in 200..299
Ok(resp) == resp.status >= 200 /\ resp.status <= 299

Return(v) == [kind |-> "return", value |-> v]
Throw(m) == [kind |-> "throw", message |-> m]

\* errors after the call awaited at `at` ended as out, a throw having fate
Fate(out, at, fate) ==
    IF out.kind = "throw" THEN errors \cup {[at |-> at, fate |-> fate]} ELSE errors

(***************************************************************************)
(* lib/api.ts: each function maps the HTTP response to its outcome         *)
(***************************************************************************)
\* startJob without its 409 branch
startJob_no409(resp) ==
    IF ~Ok(resp) THEN Throw(<<"startJob failed: ", resp.status>>)
    ELSE Return(resp.body[1])

\* startJob: 409 throws "Duplicate running job (id=<detail.job_id or ?>)"
startJob(resp) ==
    IF resp.status = 409
    THEN Throw(<<"Duplicate running job (id=",
                 IF Len(resp.body) = 0 THEN "?" ELSE resp.body[1], ")">>)
    ELSE IF ~Ok(resp) THEN Throw(<<"startJob failed: ", resp.status>>)
    ELSE Return(resp.body[1])

listJobs(resp) ==
    IF ~Ok(resp) THEN Throw(<<"listJobs failed">>) ELSE Return(resp.body)

cancelJob(resp) ==
    IF ~Ok(resp) THEN Throw(<<"cancelJob failed: ", resp.status>>)
    ELSE Return(resp.body)

orchStats(resp) ==
    IF ~Ok(resp) THEN Throw(<<"stats failed">>) ELSE Return(resp.body[1])

\* clearAllJobs without its !r.ok check
clearAllJobs_noCheck(resp) == Return(resp.body)

clearAllJobs(resp) ==
    IF ~Ok(resp) THEN Throw(<<"clearJobs failed">>) ELSE Return(resp.body)

listArtifacts(resp) ==
    IF ~Ok(resp) THEN Throw(<<"listArtifacts failed">>) ELSE Return(resp.body)

\* the exported request functions of api.ts
ApiFns == {"startJob", "listJobs", "listArtifacts", "cancelJob", "orchStats",
           "clearAllJobs"}

\* what the function named fn makes of the response resp
ApiOutcome(fn, resp) ==
    CASE fn = "startJob" -> startJob(resp)
      [] fn = "listJobs" -> listJobs(resp)
      [] fn = "listArtifacts" -> listArtifacts(resp)
      [] fn = "cancelJob" -> cancelJob(resp)
      [] fn = "orchStats" -> orchStats(resp)
      [] fn = "clearAllJobs" -> clearAllJobs(resp)

\* logsSocket(job_id): new WebSocket(url), born CONNECTING
logsSocket(job_id) == [job_id |-> job_id, st |-> "connecting", n |-> 0]

(***************************************************************************)
(* Strings of the address bar. A string is a sequence of characters; a     *)
(* character is a one-token string, and an identifier such as "tab" or     *)
(* "TIC12345" stands for a run of unreserved characters.                   *)
(***************************************************************************)
\* the characters application/x-www-form-urlencoded does not leave as they are
Reserved == {"&", "=", "+", "%", "#", "?", " "}

\* the two hex digits of a reserved character's byte
PctCode(c) ==
    CASE c = "&" -> <<"2", "6">>
      [] c = "=" -> <<"3", "D">>
      [] c = "+" -> <<"2", "B">>
      [] c = "%" -> <<"2", "5">>
      [] c = "#" -> <<"2", "3">>
      [] c = "?" -> <<"3", "F">>
      [] c = " " -> <<"2", "0">>

RECURSIVE Concat(_)
\* the concatenation of a sequence of strings
Concat(ss) == IF ss = <<>> THEN <<>> ELSE ss[1] \o Concat(Tail(ss))

\* String.prototype.indexOf, 1-based, 0 when absent
IndexOf(s, c) ==
    IF \E i \in 1..Len(s) : s[i] = c
    THEN CHOOSE i \in 1..Len(s) : s[i] = c /\ \A j \in 1..(i - 1) : s[j] # c
    ELSE 0

RECURSIVE Split(_, _)
\* the pieces of s between occurrences of c
Split(s, c) ==
    LET i == IndexOf(s, c)
    IN IF i = 0 THEN <<s>>
       ELSE <<SubSeq(s, 1, i - 1)>> \o Split(SubSeq(s, i + 1, Len(s)), c)

\* urlencoded serializer, one character: space becomes "+", a reserved
\* character its percent escape
EncodeChar(c) ==
    IF c = " " THEN <<"+">>
    ELSE IF c \in Reserved THEN <<"%">> \o PctCode(c)
    ELSE <<c>>

\* a serializer that writes names and values as they are
Encode_raw(str) == str

\* urlencoded serializer, a name or a value
Encode(str) == Concat([i \in 1..Len(str) |-> EncodeChar(str[i])])

RECURSIVE Decode(_)
\* urlencoded parser, one name or value: "+" becomes space, a valid percent
\* escape its character, anything else stays
Decode(s) ==
    IF s = <<>> THEN <<>>
    ELSE IF s[1] = "+" THEN <<" ">> \o Decode(Tail(s))
    ELSE IF /\ s[1] = "%"
            /\ Len(s) >= 3
            /\ \E c \in Reserved : PctCode(c) = <<s[2], s[3]>>
         THEN <<CHOOSE c \in Reserved : PctCode(c) = <<s[2], s[3]>> >>
                 \o Decode(SubSeq(s, 4, Len(s)))
         ELSE <<s[1]>> \o Decode(Tail(s))

\* new URLSearchParams(search): the list of <<name, value>> pairs
ParseQuery(search) ==
    LET q == IF search # <<>> /\ search[1] = "?" THEN Tail(search) ELSE search
        pieces == SelectSeq(Split(q, "&"), LAMBDA x : x # <<>>)
        pair(x) == LET i == IndexOf(x, "=")
                   IN IF i = 0 THEN <<Decode(x), <<>> >>
                      ELSE <<Decode(SubSeq(x, 1, i - 1)),
                             Decode(SubSeq(x, i + 1, Len(x)))>>
    IN [n \in 1..Len(pieces) |-> pair(pieces[n])]

RECURSIVE JoinPairs(_)
JoinPairs(qs) ==
    IF qs = <<>> THEN <<>>
    ELSE Encode(qs[1][1]) \o <<"=">> \o Encode(qs[1][2])
            \o (IF Len(qs) > 1 THEN <<"&">> ELSE <<>>) \o JoinPairs(Tail(qs))

\* URLSearchParams.prototype.toString
ParamsToString(qs) == JoinPairs(qs)

\* URLSearchParams.prototype.get: <<>> for null, <<v>> for the first value
ParamsGet(qs, k) ==
    LET hits == SelectSeq(qs, LAMBDA x : x[1] = k)
    IN IF hits = <<>> THEN <<>> ELSE <<hits[1][2]>>

\* URLSearchParams.prototype.delete: drops every pair named k
ParamsDelete(qs, k) == SelectSeq(qs, LAMBDA x : x[1] # k)

\* URLSearchParams.prototype.set: the first pair named k gets v and the other
\* pairs named k go; appended when there is none
ParamsSet(qs, k, v) ==
    IF \E i \in 1..Len(qs) : qs[i][1] = k
    THEN LET f == CHOOSE i \in 1..Len(qs) :
                     qs[i][1] = k /\ \A j \in 1..(i - 1) : qs[j][1] # k
         IN SubSeq(qs, 1, f - 1) \o << <<k, v>> >>
               \o ParamsDelete(SubSeq(qs, f + 1, Len(qs)), k)
    ELSE Append(qs, <<k, v>>)

\* the URL parser on "pathname?query#fragment", as window.location shows it:
\* search is "" for an empty query and hash "" for an empty fragment
ParseUrl(str) ==
    LET h == IndexOf(str, "#")
        beforeHash == IF h = 0 THEN str ELSE SubSeq(str, 1, h - 1)
        fragment == IF h = 0 THEN <<>> ELSE SubSeq(str, h + 1, Len(str))
        q == IndexOf(beforeHash, "?")
        path == IF q = 0 THEN beforeHash ELSE SubSeq(beforeHash, 1, q - 1)
        query == IF q = 0 THEN <<>> ELSE SubSeq(beforeHash, q + 1, Len(beforeHash))
    IN [pathname |-> path,
        search |-> IF query = <<>> THEN <<>> ELSE <<"?">> \o query,
        hash |-> IF fragment = <<>> THEN <<>> ELSE <<"#">> \o fragment]

\* history.replaceState: the current entry gets the URL
replaceState(h, url) ==
    [hist |-> [h.hist EXCEPT ![h.hidx] = ParseUrl(url)], hidx |-> h.hidx]

\* pushState that overwrites the current entry
pushState_replace(h, url) ==
    [hist |-> [h.hist EXCEPT ![h.hidx] = ParseUrl(url)], hidx |-> h.hidx]

\* history.pushState: the entries after the current one go, a new entry with
\* the URL is added and becomes the current one
pushState(h, url) ==
    [hist |-> Append(SubSeq(h.hist, 1, h.hidx), ParseUrl(url)),
     hidx |-> h.hidx + 1]

(***************************************************************************)
(* lib/url.ts                                                              *)
(***************************************************************************)
\* an optional string: undefined, or a string
Undefined == [some |-> FALSE, s |-> <<>>]
Str(v) == [some |-> TRUE, s |-> v]

\* url.ts:7-10, one entry of updates: undefined, null and "" delete the key
ApplyUpdate(qs, k, v) ==
    IF ~v.some \/ v.s = <<>> THEN ParamsDelete(qs, k) ELSE ParamsSet(qs, k, v.s)

RECURSIVE ApplyUpdates(_, _)
\* url.ts:7-10: the loop over Object.entries(updates), in order
ApplyUpdates(qs, updates) ==
    IF updates = <<>> THEN qs
    ELSE ApplyUpdates(ApplyUpdate(qs, updates[1][1], updates[1][2]), Tail(updates))

\* a setQuery that starts from an empty URLSearchParams
setQueryUrl_fresh(loc, updates) ==
    loc.pathname \o <<"?">> \o ParamsToString(ApplyUpdates(<<>>, updates)) \o loc.hash

\* url.ts:5-11: the URL setQuery pushes, from window.location and the updates
setQueryUrl(loc, updates) ==
    loc.pathname \o <<"?">> \o ParamsToString(ApplyUpdates(ParseQuery(loc.search), updates))
        \o loc.hash

RECURSIVE SetAll(_, _)
\* App.tsx:37: searchParams.set for every entry of params
SetAll(qs, params) ==
    IF params = <<>> THEN qs
    ELSE SetAll(ParamsSet(qs, params[1][1], params[1][2].s), Tail(params))

\* App.tsx:36-38: the URL App's own setQuery pushes
appSetQueryUrl(loc, params) ==
    loc.pathname \o <<"?">> \o ParamsToString(SetAll(ParseQuery(loc.search), params))
        \o loc.hash

(***************************************************************************)
(* Initial state: App constructed, nothing mounted yet, empty backend      *)
(***************************************************************************)
NoResp == [status |-> 0, body |-> <<>>]

\* the storage slots the components read
StorageKeys == {"chiss_api_key", "apiKey"}

\* localStorage.getItem(k): <<>> for null, <<value>> otherwise
getItem(k) == storage[k]

\* the X-API-Key header of a request: left out, or sent with a value
NoHeader == [present |-> FALSE, value |-> <<>>]

Header(v) == [present |-> TRUE, value |-> v]

\* api.ts:6-8  the headers apiFetch builds: X-API-Key set only for a stored
\* key that is not the empty string
apiFetchHeaders ==
    LET item == getItem("chiss_api_key")
        key == IF item = <<>> THEN <<>> ELSE item[1]
    IN IF key # <<>> THEN Header(key) ELSE NoHeader

\* a request in flight: arg is the job type of a startJob ("" otherwise), job
\* the job id of a cancelJob (0 otherwise), k the caller awaiting the answer,
\* hdr its X-API-Key header
ReqWith(id, op, arg, job, k, hdr) ==
    [id |-> id, op |-> op, arg |-> arg, job |-> job, k |-> k, resp |-> NoResp,
     hdr |-> hdr]

\* a request sent through apiFetch
Req(id, op, arg, job, k) == ReqWith(id, op, arg, job, k, apiFetchHeaders)

Pending(r) == r.resp.status = 0

\* refresh = async () => setJobs(await listJobs()): the call part, which sends
\* GET /api/jobs; k names the caller that awaits it
refreshCall(k) ==
    /\ reqs' = reqs \cup {Req(nreq + 1, "listJobs", "", 0, k)}
    /\ nreq' = nreq + 1
    /\ lastFetch' = <<[id |-> nreq + 1, resp |-> NoResp]>>

\* the view-state keys the panels and App write
Keys == {<<"tab">>, <<"star">>, <<"phase">>, <<"run">>}

NoWrites == [k \in Keys |-> <<>>]

\* the page has loaded at url and App is constructed; no effect has run yet;
\* the backend holds the jobs of table
InitStore(url, table, stored) ==
    /\ jobs = <<>>
    /\ active = <<>>
    /\ logs = <<>>
    /\ stats = <<>>
    /\ reqs = {}
    /\ nreq = 0
    /\ timers = 0
    /\ sockets = <<>>
    /\ srv = table
    /\ srvNext = Len(table) + 1
    /\ delivered = <<>>
    /\ lastFetch = <<>>
    /\ runOutcome = <<>>
    /\ nevents = 0
    /\ mounted = FALSE
    /\ unmounted = FALSE
    /\ hist = <<ParseUrl(url)>>
    /\ hidx = 1
    /\ tab = <<"discoveries">>
    /\ written = NoWrites
    /\ alerted = <<>>
    /\ errors = {}
    /\ panel = <<>>
    /\ runs = <<>>
    /\ sel = <<>>
    /\ detail = <<>>
    /\ relRun = <<>>
    /\ plots = [cal |-> <<>>, pr |-> <<>>]
    /\ storage = [k \in StorageKeys |->
                    IF k = "chiss_api_key" THEN stored ELSE <<>>]
    /\ settings = [open |-> FALSE, key |-> <<>>]
    /\ apiCall = <<>>
    /\ writer = <<>>
    /\ wb = [open |-> FALSE, star |-> <<>>, phaseMode |-> FALSE]
    /\ reveals = <<>>
    /\ disc = [open |-> FALSE, list |-> <<>>, selected |-> <<>>, detail |-> <<>>]

\* a page load in a browser that holds no API key
InitWith(url, table) == InitStore(url, table, <<>>)

InitAt(url) == InitWith(url, <<>>)

Init == InitAt(<<"/">>)

\* the job tables the backend may hold when the page loads: none, or a job
\* left running by an earlier session
SrvLoads ==
    { <<>>, <<[job_id |-> 1, job_type |-> "full-pipeline", state |-> "running"]>> }

InitPoll == \E table \in SrvLoads : InitWith(<<"/">>, table)

\* the URLs a page load may start from: none of the keys; a permalink with an
\* unknown key and a fragment; a phase-fold deep link with an escaped value;
\* repeated and value-less keys, stray separators and an empty tab
LoadUrls ==
    { <<"/">>,
      <<"/", "?", "tab", "=", "compare", "&", "utm", "=", "x", "#", "top">>,
      <<"/", "?", "star", "=", "a", "%", "2", "6", "b", "&", "phase", "=", "true">>,
      <<"/", "?", "run", "=", "RUN-1", "&", "run", "=", "RUN-2", "&", "flag",
        "&", "&", "tab", "=">> }

(***************************************************************************)
(* Backend (external collaborator): answers the requests in flight         *)
(***************************************************************************)
Reply(r, resp) == reqs' = (reqs \ {r}) \cup {[r EXCEPT !.resp = resp]}

Failure == [status |-> 500, body |-> <<>>]

NonTerminalOfType(t) ==
    {i \in 1..Len(srv) : srv[i].job_type = t /\ srv[i].state \notin Terminal}

\* POST /api/jobs: 409 carrying the running job's id, or the created Job
ServerStart(r) ==
    /\ r \in reqs /\ r.op = "startJob" /\ Pending(r)
    /\ \/ /\ NonTerminalOfType(r.arg) # {}
          /\ \E i \in NonTerminalOfType(r.arg) :
                Reply(r, [status |-> 409, body |-> <<srv[i].job_id>>])
          /\ UNCHANGED <<srv, srvNext>>
       \/ /\ NonTerminalOfType(r.arg) = {}
          /\ LET j == [job_id |-> srvNext, job_type |-> r.arg, state |-> "queued"]
             IN /\ srv' = Append(srv, j)
                /\ Reply(r, [status |-> 200, body |-> <<j>>])
          /\ srvNext' = srvNext + 1
       \/ /\ Reply(r, Failure)
          /\ UNCHANGED <<srv, srvNext>>
    /\ UNCHANGED <<appVars, nreq, timers, sockets, delivered, lastFetch, nevents, runOutcome, urlVars, panelVars, credVars, apiCall, writer, wb, reveals, disc, alerted, errors>>

\* GET /api/jobs answered with one of resps
ServerListWith(r, resps) ==
    /\ r \in reqs /\ r.op = "listJobs" /\ Pending(r)
    /\ \E resp \in resps :
          /\ Reply(r, resp)
          /\ lastFetch' = IF lastFetch # <<>> /\ lastFetch[1].id = r.id
                          THEN <<[id |-> r.id, resp |-> resp]>>
                          ELSE lastFetch
    /\ UNCHANGED <<appVars, nreq, timers, sockets, srv, srvNext, delivered, nevents, runOutcome, urlVars, panelVars, credVars, apiCall, writer, wb, reveals, disc, alerted, errors>>

\* GET /api/jobs: {jobs: Job[]}, or a failure
ServerList(r) == ServerListWith(r, {[status |-> 200, body |-> srv], Failure})

\* GET /api/jobs when the fetch succeeds
ServerListOk(r) == ServerListWith(r, {[status |-> 200, body |-> srv]})

\* POST /api/jobs/{id}/cancel
ServerCancel(r) ==
    /\ r \in reqs /\ r.op = "cancelJob" /\ Pending(r)
    /\ LET hit == {i \in 1..Len(srv) :
                      srv[i].job_id = r.job /\ srv[i].state \notin Terminal}
       IN \/ /\ hit # {}
             /\ srv' = [i \in 1..Len(srv) |->
                           IF i \in hit THEN [srv[i] EXCEPT !.state = "cancelled"]
                           ELSE srv[i]]
             /\ Reply(r, [status |-> 200, body |-> <<>>])
          \/ /\ srv' = srv
             /\ Reply(r, Failure)
    /\ UNCHANGED <<appVars, nreq, timers, sockets, srvNext, delivered, lastFetch,
                   nevents, runOutcome, urlVars, panelVars, credVars, apiCall, writer, wb, reveals, disc, alerted, errors>>

\* GET /api/orchestrator/stats: {queue_depth, running, concurrency}
ServerStats(r) ==
    /\ r \in reqs /\ r.op = "orchStats" /\ Pending(r)
    /\ LET s == [queue_depth |->
                    Cardinality({i \in 1..Len(srv) : srv[i].state = "queued"}),
                 running |->
                    Cardinality({i \in 1..Len(srv) : srv[i].state = "running"})]
       IN \E resp \in {[status |-> 200, body |-> <<s>>], Failure} : Reply(r, resp)
    /\ UNCHANGED <<appVars, nreq, timers, sockets, srv, srvNext, delivered,
                   lastFetch, nevents, runOutcome, urlVars, panelVars, credVars, apiCall, writer, wb, reveals, disc, alerted, errors>>

\* DELETE /api/jobs/clear
ServerClear(r) ==
    /\ r \in reqs /\ r.op = "clearAllJobs" /\ Pending(r)
    /\ \/ /\ srv' = <<>>
          /\ Reply(r, [status |-> 200, body |-> <<>>])
       \/ /\ srv' = srv
          /\ Reply(r, Failure)
    /\ UNCHANGED <<appVars, nreq, timers, sockets, srvNext, delivered, lastFetch,
                   nevents, runOutcome, urlVars, panelVars, credVars, apiCall, writer, wb, reveals, disc, alerted, errors>>

\* the backend moves a job along its own state machine
ServerAdvance(i) ==
    /\ i \in 1..Len(srv)
    /\ nevents < MaxEvents
    /\ nevents' = nevents + 1
    /\ \E s \in {"running", "completed", "failed"} :
          /\ \/ srv[i].state = "queued" /\ s = "running"
             \/ srv[i].state = "running" /\ s \in {"completed", "failed"}
          /\ srv' = [srv EXCEPT ![i].state = s]
    /\ UNCHANGED <<appVars, reqs, nreq, timers, sockets, srvNext, delivered,
                   lastFetch, runOutcome, urlVars, panelVars, credVars, apiCall, writer, wb, reveals, disc, alerted, errors>>

(***************************************************************************)
(* App.run (App.tsx:59-64)                                                 *)
(***************************************************************************)
\* onmessage with slice(0, 2000): a hard stop once the buffer is full
onmessage_hardStop(prev, data) ==
    IF Len(prev) >= LogCap THEN prev ELSE Append(prev, data)

\* ws.onmessage: setLogs(prev => [...prev, ev.data].slice(-2000))
onmessage(prev, data) == SliceLast(Append(prev, data), LogCap)

\* run(job_type): up to the await of startJob
run(t, maxEvents) ==
    /\ mounted /\ ~unmounted
    /\ nevents < maxEvents
    /\ nevents' = nevents + 1
    /\ reqs' = reqs \cup {Req(nreq + 1, "startJob", t, 0, "run")}
    /\ nreq' = nreq + 1
    /\ UNCHANGED <<appVars, timers, sockets, srv, srvNext, delivered, lastFetch, runOutcome, urlVars, panelVars, credVars, apiCall, writer, wb, reveals, disc, alerted, errors>>

\* a run() that attaches the new stream without emptying the log buffer
runAttach_keepLogs(j) ==
    /\ active' = <<j>>
    /\ logs' = logs
    /\ sockets' = Append(sockets, logsSocket(j.job_id))
    /\ delivered' = delivered

\* what run() does once startJob has returned job j
runAttach(j) ==
    /\ active' = <<j>>
    /\ logs' = <<>>
    /\ sockets' = Append(sockets, logsSocket(j.job_id))
    /\ delivered' = <<>>

\* run(job_type): the continuation of the await; a throw leaves run() at once
runResume(r) ==
    /\ r \in reqs /\ r.op = "startJob" /\ ~Pending(r)
    /\ reqs' = reqs \ {r}
    /\ LET out == startJob(r.resp)
       IN /\ runOutcome' = <<out>>
          /\ IF out.kind = "return"
             THEN runAttach(out.value)
             ELSE UNCHANGED <<active, logs, sockets, delivered>>
          /\ errors' = Fate(out, "run", "escaped")
    /\ UNCHANGED <<jobs, stats, nreq, timers, srv, srvNext, lastFetch, nevents, urlVars, panelVars, credVars, apiCall, writer, wb, reveals, disc, alerted>>

\* a WebSocket that connects again after it closed
WsOpen_reconnect(i) ==
    /\ i \in 1..Len(sockets)
    /\ sockets[i].st \in {"connecting", "closed"}
    /\ sockets' = [sockets EXCEPT ![i].st = "open"]
    /\ UNCHANGED <<appVars, reqs, nreq, timers, srv, srvNext, delivered,
                   lastFetch, nevents, runOutcome, urlVars, panelVars, credVars,
                   apiCall, writer, wb, reveals, disc, alerted, errors>>

\* the WebSocket connects
WsOpen(i) ==
    /\ i \in 1..Len(sockets)
    /\ sockets[i].st = "connecting"
    /\ sockets' = [sockets EXCEPT ![i].st = "open"]
    /\ UNCHANGED <<appVars, reqs, nreq, timers, srv, srvNext, delivered,
                   lastFetch, nevents, runOutcome, urlVars, panelVars, credVars, apiCall, writer, wb, reveals, disc, alerted, errors>>

\* a message event of socket i: its n-th line, carrying the job it belongs to
WsMessage(i, maxMsgs) ==
    /\ i \in 1..Len(sockets)
    /\ sockets[i].st = "open"
    /\ sockets[i].n < maxMsgs
    /\ LET data == <<sockets[i].job_id, sockets[i].n + 1>>
       IN /\ logs' = onmessage(logs, data)
          /\ delivered' = Append(delivered, data)
    /\ sockets' = [sockets EXCEPT ![i].n = @ + 1]
    /\ UNCHANGED <<jobs, active, stats, reqs, nreq, timers, srv, srvNext,
                   lastFetch, nevents, runOutcome, urlVars, panelVars, credVars, apiCall, writer, wb, reveals, disc, alerted, errors>>

\* a close event whose handler does nothing
WsClose_silent(i) ==
    /\ i \in 1..Len(sockets)
    /\ sockets[i].st \in {"connecting", "open"}
    /\ nevents < MaxEvents
    /\ nevents' = nevents + 1
    /\ sockets' = [sockets EXCEPT ![i].st = "closed"]
    /\ UNCHANGED <<appVars, reqs, nreq, lastFetch, timers, srv, srvNext, delivered,
                   runOutcome, urlVars, panelVars, credVars, apiCall, writer, wb, reveals, disc, alerted, errors>>

\* a close event of socket i (backend finished, or the connection dropped or
\* never came up): ws.onclose = () => refresh()
WsClose(i) ==
    /\ i \in 1..Len(sockets)
    /\ sockets[i].st \in {"connecting", "open"}
    /\ nevents < MaxEvents
    /\ nevents' = nevents + 1
    /\ sockets' = [sockets EXCEPT ![i].st = "closed"]
    /\ refreshCall("close")
    /\ UNCHANGED <<appVars, timers, srv, srvNext, delivered, runOutcome, urlVars, panelVars, credVars, apiCall, writer, wb, reveals, disc, alerted, errors>>

(***************************************************************************)
(* App.refresh, the poll effect (App.tsx:20-28), Cancel and Clear buttons  *)
(***************************************************************************)
\* one interval tick (App.tsx:23-26): await refresh(), then the stats fetch
Tick ==
    /\ mounted /\ ~unmounted
    /\ nevents < MaxEvents
    /\ nevents' = nevents + 1
    /\ refreshCall("tick")
    /\ UNCHANGED <<appVars, timers, sockets, srv, srvNext, delivered, runOutcome, urlVars, panelVars, credVars, apiCall, writer, wb, reveals, disc, alerted, errors>>

\* setJobs that merges: keeps the old entries and adds the fetched ones
setJobs_merge(old, fetched) == old \o fetched

\* setJobs that takes only the first list fetched
setJobs_first(old, fetched) == IF old = <<>> THEN fetched ELSE old

\* setJobs(await listJobs()): the list the state is set to
setJobs(old, fetched) == fetched

\* the alert that ends the Clear All handler (App.tsx:82-84): the success
\* message once both awaits returned, the caught error's message otherwise
clearAlert(out) ==
    IF out.kind = "return" THEN <<"All jobs cleared!">>
    ELSE <<"Error clearing jobs: ">> \o out.message

\* refresh(): the continuation of the await. A throw of listJobs rejects
\* refresh() and with it its caller; the tick goes on to the stats fetch only
\* after a refresh that returned; the Clear All handler goes on to its alert
refreshResume(r) ==
    /\ r \in reqs /\ r.op = "listJobs" /\ ~Pending(r)
    /\ LET out == listJobs(r.resp)
       IN IF out.kind = "return"
          THEN /\ jobs' = setJobs(jobs, out.value)
               /\ IF r.k = "tick"
                  THEN /\ reqs' = (reqs \ {r})
                                     \cup {Req(nreq + 1, "orchStats", "", 0, "tick")}
                       /\ nreq' = nreq + 1
                  ELSE /\ reqs' = reqs \ {r}
                       /\ nreq' = nreq
          ELSE /\ jobs' = jobs
               /\ reqs' = reqs \ {r}
               /\ nreq' = nreq
    /\ alerted' = IF r.k = "clear" THEN clearAlert(listJobs(r.resp)) ELSE alerted
    /\ errors' = Fate(listJobs(r.resp), r.k,
                      IF r.k = "clear" THEN "alerted" ELSE "escaped")
    /\ UNCHANGED <<active, logs, stats, timers, sockets, srv, srvNext, delivered,
                   lastFetch, nevents, runOutcome, urlVars, panelVars, credVars, apiCall, writer, wb, reveals, disc>>

\* a stats continuation whose catch clears the stats shown
statsResume_reset(r) ==
    /\ r \in reqs /\ r.op = "orchStats" /\ ~Pending(r)
    /\ reqs' = reqs \ {r}
    /\ LET out == orchStats(r.resp)
       IN /\ stats' = IF out.kind = "return" THEN <<out.value>> ELSE <<>>
          /\ errors' = Fate(out, "stats", "caught")
    /\ UNCHANGED <<jobs, active, logs, nreq, timers, sockets, srv, srvNext,
                   delivered, lastFetch, nevents, runOutcome, urlVars, panelVars, credVars, apiCall, writer, wb, reveals, disc, alerted>>

\* try{ setStats(await orchStats()); }catch{}
statsResume(r) ==
    /\ r \in reqs /\ r.op = "orchStats" /\ ~Pending(r)
    /\ reqs' = reqs \ {r}
    /\ LET out == orchStats(r.resp)
       IN /\ stats' = IF out.kind = "return" THEN <<out.value>> ELSE stats
          /\ errors' = Fate(out, "stats", "caught")
    /\ UNCHANGED <<jobs, active, logs, nreq, timers, sockets, srv, srvNext,
                   delivered, lastFetch, nevents, runOutcome, urlVars, panelVars, credVars, apiCall, writer, wb, reveals, disc, alerted>>

\* the Cancel button of row i, rendered for a queued or running job
\* (App.tsx:197): await cancelJob(j.job_id)
cancelClick(i) ==
    /\ ~unmounted
    /\ i \in 1..Len(jobs)
    /\ jobs[i].state \in {"queued", "running"}
    /\ nevents < MaxEvents
    /\ nevents' = nevents + 1
    /\ reqs' = reqs \cup {Req(nreq + 1, "cancelJob", "", jobs[i].job_id, "cancel")}
    /\ nreq' = nreq + 1
    /\ UNCHANGED <<appVars, timers, sockets, srv, srvNext, delivered, lastFetch, runOutcome, urlVars, panelVars, credVars, apiCall, writer, wb, reveals, disc, alerted, errors>>

\* a Cancel handler that marks the job cancelled at once
cancelLocal_optimistic(old, id) ==
    [i \in 1..Len(old) |->
        IF old[i].job_id = id THEN [old[i] EXCEPT !.state = "cancelled"] ELSE old[i]]

\* what the Cancel handler does to the job list once cancelJob has returned
cancelLocal(old, id) == old

\* ... then setTimeout(refresh, 500); a throw of cancelJob ends the handler
cancelResume(r) ==
    /\ r \in reqs /\ r.op = "cancelJob" /\ ~Pending(r)
    /\ reqs' = reqs \ {r}
    /\ LET out == cancelJob(r.resp)
       IN /\ IF out.kind = "return"
             THEN /\ timers' = timers + 1
                  /\ jobs' = cancelLocal(jobs, r.job)
             ELSE UNCHANGED <<timers, jobs>>
          /\ errors' = Fate(out, "cancel", "escaped")
    /\ UNCHANGED <<active, logs, stats, nreq, sockets, srv, srvNext, delivered,
                   lastFetch, nevents, runOutcome, urlVars, panelVars, credVars, apiCall, writer, wb, reveals, disc, alerted>>

\* the 500 ms timer fires: refresh()
timerFire ==
    /\ timers > 0
    /\ timers' = timers - 1
    /\ refreshCall("timer")
    /\ UNCHANGED <<appVars, sockets, srv, srvNext, delivered, nevents, runOutcome, urlVars, panelVars, credVars, apiCall, writer, wb, reveals, disc, alerted, errors>>

\* the Clear All Jobs button, rendered only while stats is known
\* (App.tsx:72-80), confirmed: await clearAllJobs()
clearClick ==
    /\ stats # <<>>
    /\ mounted /\ ~unmounted
    /\ nevents < MaxEvents
    /\ nevents' = nevents + 1
    /\ reqs' = reqs \cup {Req(nreq + 1, "clearAllJobs", "", 0, "clear")}
    /\ nreq' = nreq + 1
    /\ UNCHANGED <<appVars, timers, sockets, srv, srvNext, delivered, lastFetch, runOutcome, urlVars, panelVars, credVars, apiCall, writer, wb, reveals, disc, alerted, errors>>

\* ... then await refresh() (App.tsx:81); a throw goes to the catch
clearResume(r) ==
    /\ r \in reqs /\ r.op = "clearAllJobs" /\ ~Pending(r)
    /\ LET out == clearAllJobs(r.resp)
       IN /\ IF out.kind = "return"
             THEN /\ reqs' = (reqs \ {r})
                                \cup {Req(nreq + 1, "listJobs", "", 0, "clear")}
                  /\ nreq' = nreq + 1
                  /\ lastFetch' = <<[id |-> nreq + 1, resp |-> NoResp]>>
                  /\ alerted' = alerted
             ELSE /\ reqs' = reqs \ {r}
                  /\ alerted' = clearAlert(out)
                  /\ UNCHANGED <<nreq, lastFetch>>
          /\ errors' = Fate(out, "clearAll", "alerted")
    /\ UNCHANGED <<appVars, timers, sockets, srv, srvNext, delivered, nevents, runOutcome, urlVars, panelVars, credVars, apiCall, writer, wb, reveals, disc>>

(***************************************************************************)
(* The address bar: lib/url.ts, App's mount effects and tab buttons        *)
(***************************************************************************)
jobVars == <<jobs, active, logs, stats, reqs, nreq, timers, sockets, srv, srvNext,
             delivered, lastFetch, runOutcome, nevents, alerted, errors>>

\* window.location
Location == hist[hidx]

\* url.ts:1-3
getQuery == ParseQuery(Location.search)

\* url.ts:15-18: <<>> for undefined, <<v>> for the value
getParam(name) == ParamsGet(getQuery, name)

\* a || b on an optional string: b when a is undefined or ""
OrElse(a, b) == IF a = <<>> \/ a[1] = <<>> THEN b ELSE a[1]

\* App.tsx:49-56: a phase-fold deep link is rewritten in place on load
normalizeUrl(loc) ==
    LET qs == ParseQuery(loc.search)
        t == ParamsGet(qs, <<"tab">>)
        star == ParamsGet(qs, <<"star">>)
        phase == ParamsGet(qs, <<"phase">>)
        params == ParamsSet(ParamsSet(ParamsSet(qs, <<"star">>, star[1]),
                                      <<"phase">>, <<"true">>),
                            <<"tab">>, OrElse(t, <<"workbench">>))
    IN loc.pathname \o <<"?">> \o ParamsToString(params) \o loc.hash

\* App mounts: the poll effect's first refresh() (App.tsx:21-22), the tab seed
\* (App.tsx:30-33) and the deep-link rewrite (App.tsx:42-57), each reading the
\* URL as the page loaded it
mount ==
    /\ ~mounted
    /\ mounted' = TRUE
    /\ refreshCall("mount")
    /\ tab' = OrElse(getParam(<<"tab">>), <<"discoveries">>)
    /\ LET star == getParam(<<"star">>)
           phase == getParam(<<"phase">>)
       IN IF OrElse(star, <<>>) # <<>> /\ phase = << <<"true">> >>
          THEN LET h == replaceState([hist |-> hist, hidx |-> hidx],
                                     normalizeUrl(Location))
               IN hist' = h.hist /\ hidx' = h.hidx
          ELSE UNCHANGED <<hist, hidx>>
    /\ UNCHANGED <<appVars, timers, sockets, srv, srvNext, delivered, runOutcome,
                   nevents, written, alerted, errors, unmounted, panelVars, credVars, apiCall, writer, wb, reveals, disc>>

\* App unmounts: the poll effect's cleanup, clearInterval(id) (App.tsx:27).
\* Nothing else is cleaned up: requests in flight, the 500 ms timers and the
\* sockets live on, and state set afterwards is never rendered
unmount ==
    /\ mounted /\ ~unmounted
    /\ unmounted' = TRUE
    /\ UNCHANGED <<jobVars, panelVars, credVars, apiCall, writer, wb, reveals, disc, mounted, hist, hidx, tab, written>>

\* the updates of one call, as Object.entries lists them
Upd(k, v) == <<k, v>>

\* the values a star input and a run selector can hold
Stars == { <<>>, <<"TIC12345">> }
Runs == { <<"RUN-1">>, <<"R", " ", "#", "&">> }

\* setQuery calls of the panels: Workbench's Load with the phase toggle off
\* (Workbench.tsx:129), the candidates table's phase, workbench and
\* reliability links (RunCompare.tsx:199-208), the run selectors
\* (Sparkline.tsx:197)
Writes ==
    { <<Upd(<<"star">>, Str(s)), Upd(<<"tab">>, Str(<<"workbench">>)),
        Upd(<<"phase">>, Undefined)>> : s \in Stars \ { <<"TIC12345">> } }
    \cup { <<Upd(<<"star">>, Str(<<"TIC12345">>)),
             Upd(<<"tab">>, Str(<<"workbench">>)),
             Upd(<<"phase">>, Str(<<"true">>))>> }
    \cup { <<Upd(<<"star">>, Str(<<"TIC12345">>)),
             Upd(<<"tab">>, Str(<<"workbench">>))>> }
    \cup { <<Upd(<<"run">>, Str(r)), Upd(<<"tab">>, Str(<<"reliability">>))>> :
             r \in Runs }

\* the keys an updates object names
KeysOf(updates) == {updates[i][1] : i \in 1..Len(updates)}

ValueOf(updates, k) ==
    updates[CHOOSE i \in 1..Len(updates) : updates[i][1] = k][2]

Record(updates) ==
    [k \in Keys |-> IF k \in KeysOf(updates) THEN <<ValueOf(updates, k)>>
                    ELSE written[k]]

\* url.ts:5-13  what setQuery(updates) does to the address bar
pushQuery(updates) ==
    /\ written' = Record(updates)
    /\ LET h == pushState([hist |-> hist, hidx |-> hidx],
                          setQueryUrl(Location, updates))
       IN hidx' = h.hidx /\ hist' = h.hist

\* url.ts:5-13  setQuery(updates), called by a panel
setQuery(updates) ==
    /\ mounted /\ ~unmounted
    /\ hidx < MaxHist
    /\ pushQuery(updates)
    /\ UNCHANGED <<jobVars, panelVars, credVars, apiCall, writer, wb, reveals, disc, mounted, unmounted, tab>>

\* two of the tab buttons (App.tsx:205-209)
Tabs == { <<"discoveries">>, <<"alerts">> }

\* App.tsx:35-40  App's own setQuery(params), called by a tab button:
\* pushState, then setTab(params.tab || "reliability")
appSetQuery(params) ==
    /\ mounted /\ ~unmounted
    /\ hidx < MaxHist
    /\ written' = Record(params)
    /\ tab' = IF <<"tab">> \in KeysOf(params)
              THEN OrElse(<<ValueOf(params, <<"tab">>).s>>, <<"reliability">>)
              ELSE <<"reliability">>
    /\ LET h == pushState([hist |-> hist, hidx |-> hidx],
                          appSetQueryUrl(Location, params))
       IN hidx' = h.hidx /\ hist' = h.hist
    /\ UNCHANGED <<jobVars, panelVars, credVars, apiCall, writer, wb, reveals, disc, mounted, unmounted>>

\* the browser's Back button: the previous entry becomes the current one
Back ==
    /\ hidx > 1
    /\ hidx' = hidx - 1
    /\ written' = NoWrites
    /\ UNCHANGED <<jobVars, panelVars, credVars, apiCall, writer, wb, reveals, disc, mounted, unmounted, hist, tab>>

\* the browser's Forward button
Forward ==
    /\ hidx < Len(hist)
    /\ hidx' = hidx + 1
    /\ written' = NoWrites
    /\ UNCHANGED <<jobVars, panelVars, credVars, apiCall, writer, wb, reveals, disc, mounted, unmounted, hist, tab>>

(***************************************************************************)
(* The dashboard with its backend                                          *)
(***************************************************************************)
Next ==
    \/ mount
    \/ \E t \in JobTypes : run(t, MaxEvents)
    \/ \E r \in reqs : runResume(r)
    \/ \E i \in 1..Len(sockets) : WsOpen(i)
    \/ \E i \in 1..Len(sockets) : WsMessage(i, MaxMsgs)
    \/ \E i \in 1..Len(sockets) : WsClose(i)
    \/ Tick
    \/ \E r \in reqs : refreshResume(r)
    \/ \E r \in reqs : statsResume(r)
    \/ \E i \in 1..Len(jobs) : cancelClick(i)
    \/ \E r \in reqs : cancelResume(r)
    \/ timerFire
    \/ clearClick
    \/ \E r \in reqs : clearResume(r)
    \/ \E r \in reqs : ServerStart(r)
    \/ \E r \in reqs : ServerList(r)
    \/ \E r \in reqs : ServerCancel(r)
    \/ \E r \in reqs : ServerStats(r)
    \/ \E r \in reqs : ServerClear(r)
    \/ \E i \in 1..Len(srv) : ServerAdvance(i)

Spec == Init /\ [][Next]_vars

\* one job and its stream, long enough to fill the log buffer
NextBuf ==
    \/ mount
    \/ \E t \in JobTypes : run(t, 1)
    \/ \E r \in reqs : ServerStart(r)
    \/ \E r \in reqs : runResume(r)
    \/ \E i \in 1..Len(sockets) : WsOpen(i)
    \/ \E i \in 1..Len(sockets) : WsMessage(i, LogCap + MaxExtra)
    \/ \E i \in 1..Len(sockets) : WsClose(i)

SpecBuf == Init /\ [][NextBuf]_vars

\* the poll loop from mount to unmount and the Clear All button, over a
\* backend that may already hold a job
NextPoll ==
    \/ mount
    \/ unmount
    \/ Tick
    \/ \E r \in reqs : refreshResume(r)
    \/ \E r \in reqs : statsResume(r)
    \/ clearClick
    \/ \E r \in reqs : clearResume(r)
    \/ \E r \in reqs : ServerList(r)
    \/ \E r \in reqs : ServerStats(r)
    \/ \E r \in reqs : ServerClear(r)
    \/ \E i \in 1..Len(srv) : ServerAdvance(i)

SpecPoll == InitPoll /\ [][NextPoll]_vars

\* the dashboard while every job-list fetch succeeds: runs, streams closing,
\* ticks, and the backend moving jobs along
NextLive ==
    \/ mount
    \/ run("full-pipeline", MaxEvents)
    \/ \E r \in reqs : ServerStart(r)
    \/ \E r \in reqs : runResume(r)
    \/ \E i \in 1..Len(sockets) : WsClose(i)
    \/ Tick
    \/ \E r \in reqs : ServerListOk(r)
    \/ \E r \in reqs : refreshResume(r)
    \/ \E r \in reqs : ServerStats(r)
    \/ \E r \in reqs : statsResume(r)
    \/ \E i \in 1..Len(srv) : ServerAdvance(i)

\* every request sent is answered and every answer is delivered to the code
\* awaiting it
SpecLive ==
    /\ InitPoll
    /\ [][NextLive]_vars
    /\ WF_vars(\E r \in reqs : ServerListOk(r))
    /\ WF_vars(\E r \in reqs : refreshResume(r))

(***************************************************************************)
(* The run panels: MetricsHistory (Sparkline.tsx) and ReliabilityPanel     *)
(***************************************************************************)
\* the runs the backend has metrics for, oldest first
RunIds == <<"RUN-1", "RUN-2">>

\* page loads that open a run panel, with and without a run in the address
PanelUrls ==
    { <<"/", "?", "tab", "=", "history">>,
      <<"/", "?", "tab", "=", "history", "&", "run", "=", "RUN-1">>,
      <<"/", "?", "tab", "=", "reliability">>,
      <<"/", "?", "tab", "=", "reliability", "&", "run", "=", "RUN-1">> }

\* a JavaScript truthiness test of a string | undefined held as <<>> or <<s>>
Truthy(v) == v # <<>> /\ v[1] # <<>>

\* the requests of the run panels
PanelOps == {"history", "runDetail", "calibration", "prOverlay"}

\* one more request leaves the page
Fetch(op, arg, k) ==
    /\ reqs' = reqs \cup {Req(nreq + 1, op, arg, 0, k)}
    /\ nreq' = nreq + 1

\* Sparkline.tsx:80-86  loadDetail(run_id) up to its await
loadDetail(run_id) == Fetch("runDetail", run_id[1], "detail")

\* part_002:30-35  draw() up to its first await
draw(v) == Fetch("calibration", v[1], "draw")

\* Sparkline.tsx:53-54,110-111  MetricsHistory mounts: state from the address
\* bar, then the effects load() and, for a truthy sel, loadDetail(sel)
MetricsHistoryMount ==
    /\ mounted /\ ~unmounted /\ panel = <<>> /\ tab = <<"history">>
    /\ panel' = tab
    /\ sel' = getParam(<<"run">>)
    /\ detail' = <<>>
    /\ runs' = <<>>
    /\ reqs' = reqs \cup {Req(nreq + 1, "history", "", 0, "load")}
                    \cup IF Truthy(sel')
                         THEN {Req(nreq + 2, "runDetail", sel'[1][1], 0, "detail")}
                         ELSE {}
    /\ nreq' = nreq + 2
    /\ UNCHANGED <<appVars, timers, sockets, srv, srvNext, delivered, lastFetch,
                   runOutcome, nevents, alerted, errors, urlVars, relRun, plots, credVars, apiCall, writer, wb, reveals, disc>>

\* part_002:12-14,27,67  ReliabilityPanel mounts: state from the address bar,
\* then the effects loadRuns() and draw()
ReliabilityPanelMount ==
    /\ mounted /\ ~unmounted /\ panel = <<>> /\ tab = <<"reliability">>
    /\ panel' = tab
    /\ relRun' = OrElse(getParam(<<"run">>), <<>>)
    /\ plots' = [cal |-> <<>>, pr |-> <<>>]
    /\ runs' = <<>>
    /\ reqs' = reqs \cup {Req(nreq + 1, "history", "", 0, "loadRuns")}
                    \cup IF relRun' # <<>>
                         THEN {Req(nreq + 2, "calibration", relRun'[1], 0, "draw")}
                         ELSE {}
    /\ nreq' = nreq + 2
    /\ UNCHANGED <<appVars, timers, sockets, srv, srvNext, delivered, lastFetch,
                   runOutcome, nevents, alerted, errors, urlVars, sel, detail, credVars, apiCall, writer, wb, reveals, disc>>

\* GET /api/metrics/history(_compact), /api/metrics/run/{id},
\* /api/metrics/run/{id}/calibration and .../pr_overlay, answered
ServerRun(r) ==
    /\ r \in reqs /\ r.op \in PanelOps /\ Pending(r)
    /\ Reply(r, [status |-> 200,
                 body |-> IF r.op = "history" THEN RunIds
                          ELSE <<[run_id |-> r.arg]>>])
    /\ UNCHANGED <<appVars, nreq, timers, sockets, srv, srvNext, delivered,
                   lastFetch, nevents, runOutcome, urlVars, panelVars, credVars, apiCall, writer, wb, reveals, disc, alerted,
                   errors>>

\* Sparkline.tsx:58-79  load() from its await on: setHist(items) and, with no
\* selection yet, setSel(getParam("run") || newest), whose effect loads it
loadResume(r) ==
    /\ r \in reqs /\ r.op = "history" /\ r.k = "load" /\ ~Pending(r)
    /\ IF ~Ok(r.resp)
       THEN /\ errors' = Fate(Throw(<<"history failed">>), "load", "caught")
            /\ reqs' = reqs \ {r}
            /\ UNCHANGED <<runs, sel, nreq>>
       ELSE LET items == r.resp.body
                initial == OrElse(getParam(<<"run">>), <<items[Len(items)]>>)
            IN /\ runs' = items
               /\ sel' = IF Len(items) > 0 /\ ~Truthy(sel) THEN <<initial>>
                         ELSE sel
               /\ IF sel' # sel
                  THEN /\ reqs' = (reqs \ {r}) \cup
                            {Req(nreq + 1, "runDetail", initial[1], 0, "detail")}
                       /\ nreq' = nreq + 1
                  ELSE reqs' = reqs \ {r} /\ nreq' = nreq
               /\ errors' = errors
    /\ UNCHANGED <<appVars, timers, sockets, srv, srvNext, delivered, lastFetch,
                   runOutcome, nevents, alerted, urlVars, panel, detail, relRun,
                   plots, credVars, apiCall, writer, wb, reveals, disc>>

\* part_002:17-27  loadRuns() from its await on: setRuns(items) and, with no
\* run yet, setRun(getParam("run") || items[0].run_id), whose effect draws it
loadRunsResume(r) ==
    /\ r \in reqs /\ r.op = "history" /\ r.k = "loadRuns" /\ ~Pending(r)
    /\ LET items == r.resp.body
           initial == OrElse(getParam(<<"run">>), <<items[1]>>)
       IN /\ runs' = items
          /\ relRun' = IF Len(items) > 0 /\ relRun = <<>> THEN initial
                       ELSE relRun
          /\ IF relRun' # relRun
             THEN /\ reqs' = (reqs \ {r}) \cup
                       {Req(nreq + 1, "calibration", initial[1], 0, "draw")}
                  /\ nreq' = nreq + 1
             ELSE reqs' = reqs \ {r} /\ nreq' = nreq
    /\ UNCHANGED <<appVars, timers, sockets, srv, srvNext, delivered, lastFetch,
                   runOutcome, nevents, alerted, errors, urlVars, panel, sel,
                   detail, plots, credVars, apiCall, writer, wb, reveals, disc>>

\* the run a panel's control carries, as setQuery receives it
RunUpdates(v) ==
    <<Upd(<<"run">>, Str(<<v>>)), Upd(<<"tab">>, Str(<<"reliability">>))>>

\* Sparkline.tsx:197  a row's Reliability button: setSel(h.run_id) and
\* setQuery({run, tab}); the [sel] effect loads the detail of a changed sel
selectRun(i) ==
    /\ mounted /\ ~unmounted /\ panel = <<"history">>
    /\ i \in 1..Len(runs)
    /\ hidx < MaxHist
    /\ sel' = << <<runs[i]>> >>
    /\ pushQuery(RunUpdates(runs[i]))
    /\ IF sel' # sel THEN loadDetail(sel'[1]) ELSE UNCHANGED <<reqs, nreq>>
    /\ UNCHANGED <<appVars, timers, sockets, srv, srvNext, delivered, lastFetch,
                   runOutcome, nevents, alerted, errors, mounted, unmounted,
                   tab, panel, runs, detail, relRun, plots, credVars, apiCall, writer, wb, reveals, disc>>

\* part_002:75-78  the run <select> changes: setRun(val) and setQuery; the
\* [run] effect draws the new run
relSelect(i) ==
    /\ mounted /\ ~unmounted /\ panel = <<"reliability">>
    /\ i \in 1..Len(runs)
    /\ <<runs[i]>> # relRun
    /\ hidx < MaxHist
    /\ relRun' = <<runs[i]>>
    /\ pushQuery(RunUpdates(runs[i]))
    /\ draw(relRun')
    /\ UNCHANGED <<appVars, timers, sockets, srv, srvNext, delivered, lastFetch,
                   runOutcome, nevents, alerted, errors, mounted, unmounted,
                   tab, panel, runs, sel, detail, plots, credVars, apiCall, writer, wb, reveals, disc>>

\* Sparkline.tsx:80-86  loadDetail from its await on: setDetail(json), or
\* setErr for a response that is not ok
loadDetailResume(r) ==
    /\ r \in reqs /\ r.op = "runDetail" /\ ~Pending(r)
    /\ reqs' = reqs \ {r}
    /\ IF Ok(r.resp)
       THEN detail' = <<r.resp.body[1].run_id>> /\ errors' = errors
       ELSE /\ errors' = Fate(Throw(<<"detail failed">>), "detail", "caught")
            /\ detail' = detail
    /\ UNCHANGED <<appVars, nreq, timers, sockets, srv, srvNext, delivered,
                   lastFetch, runOutcome, nevents, alerted, urlVars, panel, runs,
                   sel, relRun, plots, credVars, apiCall, writer, wb, reveals, disc>>

\* part_002:35-52  draw() from its first await on: the calibration plots are
\* drawn from the answer, then the overlay of the same run is fetched
drawCalResume(r) ==
    /\ r \in reqs /\ r.op = "calibration" /\ ~Pending(r)
    /\ plots' = [plots EXCEPT !.cal = <<r.resp.body[1].run_id>>]
    /\ reqs' = (reqs \ {r}) \cup {Req(nreq + 1, "prOverlay", r.arg, 0, "draw")}
    /\ nreq' = nreq + 1
    /\ UNCHANGED <<appVars, timers, sockets, srv, srvNext, delivered, lastFetch,
                   runOutcome, nevents, alerted, errors, urlVars, panel, runs,
                   sel, detail, relRun, credVars, apiCall, writer, wb, reveals, disc>>

\* part_002:52-65  draw() from its second await on: the overlay is drawn
drawPrResume(r) ==
    /\ r \in reqs /\ r.op = "prOverlay" /\ ~Pending(r)
    /\ plots' = [plots EXCEPT !.pr = <<r.resp.body[1].run_id>>]
    /\ reqs' = reqs \ {r}
    /\ UNCHANGED <<appVars, nreq, timers, sockets, srv, srvNext, delivered,
                   lastFetch, runOutcome, nevents, alerted, errors, urlVars,
                   panel, runs, sel, detail, relRun, credVars, apiCall, writer, wb, reveals, disc>>

\* a run panel from its page load on: selections and fetches in any order
NextPanel ==
    \/ mount
    \/ MetricsHistoryMount
    \/ ReliabilityPanelMount
    \/ \E r \in reqs : ServerRun(r)
    \/ \E r \in reqs : loadResume(r)
    \/ \E r \in reqs : loadRunsResume(r)
    \/ \E i \in 1..Len(RunIds) : selectRun(i)
    \/ \E i \in 1..Len(RunIds) : relSelect(i)
    \/ \E r \in reqs : loadDetailResume(r)
    \/ \E r \in reqs : drawCalResume(r)
    \/ \E r \in reqs : drawPrResume(r)

SpecPanel ==
    (\E u \in PanelUrls : InitWith(u, <<>>)) /\ [][NextPanel]_vars

(***************************************************************************)
(* API key: SettingsBar (Settings.tsx) and the components that call fetch   *)
(* themselves (DiagnosticsPanel.tsx)                                        *)
(***************************************************************************)
\* what can be typed or pasted into the key input, as characters
KeyInputs == { <<>>, <<"k", "1">>, <<" ", "k", "1", " ">>, <<"k", "2">> }

\* what chiss_api_key can hold at a page load: nothing, or a key saved in an
\* earlier session
StoredAtLoad == { <<>>, << <<"k", "1">> >> }

RECURSIVE TrimStart(_)
TrimStart(v) == IF v # <<>> /\ v[1] = " " THEN TrimStart(Tail(v)) ELSE v

RECURSIVE TrimEnd(_)
TrimEnd(v) ==
    IF v # <<>> /\ v[Len(v)] = " " THEN TrimEnd(SubSeq(v, 1, Len(v) - 1)) ELSE v

\* String.prototype.trim
Trim(v) == TrimEnd(TrimStart(v))

\* Settings.tsx:13-16  whoami() up to its await: plain fetch with the header
\* X-API-Key: key.trim()
whoami(key) ==
    /\ reqs' = reqs \cup {ReqWith(nreq + 1, "whoami", "", 0, "whoami",
                                  Header(Trim(key)))}
    /\ nreq' = nreq + 1

\* Settings.tsx:5,21  SettingsBar mounts under App: key state from storage,
\* then the effect whoami()
SettingsBarMount ==
    /\ mounted /\ ~unmounted /\ ~settings.open
    /\ LET item == getItem("chiss_api_key")
           key == IF item = <<>> \/ item[1] = <<>> THEN <<>> ELSE item[1]
       IN /\ settings' = [open |-> TRUE, key |-> key]
          /\ whoami(key)
    /\ UNCHANGED <<appVars, timers, sockets, srv, srvNext, delivered, lastFetch,
                   runOutcome, nevents, alerted, errors, urlVars, panelVars,
                   storage, apiCall, writer, wb, reveals, disc>>

\* Settings.tsx:25  the key input changes: setKey(e.target.value)
setKey(v) ==
    /\ settings.open /\ ~unmounted
    /\ v # settings.key
    /\ settings' = [settings EXCEPT !.key = v]
    /\ UNCHANGED <<jobVars, urlVars, panelVars, storage, apiCall, writer, wb, reveals, disc>>

\* Settings.tsx:9-12  save(), the Use Key button: the trimmed key is stored,
\* then whoami()
save ==
    /\ settings.open /\ ~unmounted
    /\ nreq < MaxReqs
    /\ storage' = [storage EXCEPT !["chiss_api_key"] = <<Trim(settings.key)>>]
    /\ whoami(settings.key)
    /\ UNCHANGED <<appVars, timers, sockets, srv, srvNext, delivered, lastFetch,
                   runOutcome, nevents, alerted, errors, urlVars, panelVars,
                   settings, apiCall, writer, wb, reveals, disc>>

\* DiagnosticsPanel.tsx:30-41  the [jobId] effect runs loadData() up to its
\* await: plain fetch with the header X-API-Key: getItem("apiKey") || ""
loadData ==
    /\ mounted /\ ~unmounted
    /\ nreq < MaxReqs
    /\ LET item == getItem("apiKey")
           apiKey == IF item = <<>> \/ item[1] = <<>> THEN <<>> ELSE item[1]
       IN reqs' = reqs \cup {ReqWith(nreq + 1, "diagnostics", "", 0, "loadData",
                                     Header(apiKey))}
    /\ nreq' = nreq + 1
    /\ UNCHANGED <<appVars, timers, sockets, srv, srvNext, delivered, lastFetch,
                   runOutcome, nevents, alerted, errors, urlVars, panelVars,
                   credVars, apiCall, writer, wb, reveals, disc>>

\* the requests of every component while keys are typed and saved
NextCred ==
    \/ mount
    \/ Tick
    \/ SettingsBarMount
    \/ \E v \in KeyInputs : setKey(v)
    \/ save
    \/ loadData

SpecCred ==
    (\E stored \in StoredAtLoad : InitStore(<<"/">>, <<>>, stored)) /\ [][NextCred]_vars

(***************************************************************************)
(* lib/api.ts on its own: every function against every kind of response    *)
(***************************************************************************)
\* HTTP statuses on both sides of each border of 200..299, and 409
ApiStatuses == {199, 200, 201, 204, 299, 300, 400, 404, 409, 500}

\* JSON bodies a response can carry
ApiBodies ==
    { <<[job_id |-> 1, job_type |-> "full-pipeline", state |-> "queued"]>>,
      <<[job_id |-> 2, job_type |-> "full-pipeline", state |-> "running"]>> }

\* one call of an api.ts function whose fetch resolved with resp
apiAnswer(fn, resp) ==
    /\ apiCall' = <<[fn |-> fn, resp |-> resp, out |-> ApiOutcome(fn, resp)]>>
    /\ UNCHANGED <<jobVars, urlVars, panelVars, credVars, writer, wb, reveals, disc>>

NextApi ==
    \E fn \in ApiFns, st \in ApiStatuses, b \in ApiBodies :
        apiAnswer(fn, [status |-> st, body |-> b])

SpecApi == Init /\ [][NextApi]_vars

(***************************************************************************)
(* The view-state writes of the panels, each with the panel that makes it  *)
(***************************************************************************)
\* the keys a panel seeds its state from (Workbench.tsx:14-15,
\* RunCompare.tsx:13-14, Sparkline.tsx:53, part_002:13)
Owns(p) ==
    CASE p = "workbench" -> {<<"star">>, <<"phase">>}
      [] p = "compare" -> {<<"run_a">>, <<"run_b">>}
      [] p = "history" -> {<<"run">>}
      [] p = "reliability" -> {<<"run">>}
      [] OTHER -> {}

Call(p, updates) == [panel |-> p, updates |-> updates]

\* every setQuery call in the components, for one star and two runs
PanelCalls ==
    { Call("workbench", <<Upd(<<"star">>, Str(<<"TIC12345">>)),
                          Upd(<<"tab">>, Str(<<"workbench">>)),
                          Upd(<<"phase">>, ph)>>) :
        ph \in {Str(<<"true">>), Undefined} }
    \cup { Call(p, <<Upd(<<"tab">>, Str(<<"compare">>)),
                     Upd(<<"run_a">>, Str(<<"RUN-1">>)),
                     Upd(<<"run_b">>, Str(<<"RUN-2">>))>>) :
             p \in {"compare", "history"} }
    \cup { Call("candidates", <<Upd(<<"star">>, Str(<<"TIC12345">>)),
                                Upd(<<"tab">>, Str(<<"workbench">>))>>),
           Call("candidates", <<Upd(<<"tab">>, Str(<<"reliability">>))>>),
           Call("candidates", <<Upd(<<"star">>, Str(<<"TIC12345">>)),
                                Upd(<<"tab">>, Str(<<"workbench">>)),
                                Upd(<<"phase">>, Str(<<"true">>))>>) }
    \cup { Call(p, <<Upd(<<"run">>, Str(<<r>>)),
                     Upd(<<"tab">>, Str(<<"reliability">>))>>) :
             p \in {"candidates", "history", "reliability"},
             r \in {"RUN-1", "RUN-2"} }

\* a panel calls url.ts setQuery
panelWrite(c) ==
    /\ mounted /\ ~unmounted
    /\ hidx < MaxHist
    /\ pushQuery(c.updates)
    /\ writer' = <<c>>
    /\ UNCHANGED <<jobVars, panelVars, credVars, apiCall, wb, reveals, disc, mounted,
                   unmounted, tab>>

NextOwn ==
    \/ mount
    \/ \E c \in PanelCalls : panelWrite(c)
    \/ Back
    \/ Forward

SpecOwn == Init /\ [][NextOwn]_vars

(***************************************************************************)
(* Workbench (Workbench.tsx): star input, phase toggle, Load                *)
(***************************************************************************)
\* page loads with and without a star, with the phase flag in either case
WbUrls ==
    { <<"/">>,
      <<"/", "?", "star", "=", "TIC12345", "&", "phase", "=", "TRUE">>,
      <<"/", "?", "star", "=", "KIC7", "&", "tab", "=", "workbench">> }

InitWb == \E u \in WbUrls : InitWith(u, <<>>)

\* what can be typed into the star input
StarInputs == { <<>>, <<"KIC7">> }

\* String.prototype.toLowerCase, on the words a phase flag is made of
ToLowerCase(v) ==
    [i \in DOMAIN v |-> IF v[i] \in {"TRUE", "True"} THEN "true" ELSE v[i]]

\* Workbench.tsx:23-26  load() up to its first await: the index of the star
\* held in the star state of the render that made this load
wbLoad(star) ==
    Fetch("workbenchIndex", IF star = <<>> THEN "" ELSE star[1], "load")

\* Workbench.tsx:14-15,111-120  Workbench mounts: star and phaseMode from the
\* address bar, then the preload effect, which loads only for a URL star that
\* differs from the star state
WorkbenchMount ==
    /\ mounted /\ ~unmounted /\ ~wb.open
    /\ LET star == OrElse(getParam(<<"star">>), <<>>)
           phaseMode ==
               ToLowerCase(OrElse(getParam(<<"phase">>), <<>>)) = <<"true">>
           s == getParam(<<"star">>)
       IN IF Truthy(s) /\ s[1] # star
          THEN /\ wb' = [open |-> TRUE, star |-> s[1], phaseMode |-> phaseMode]
               /\ wbLoad(star)
          ELSE /\ wb' = [open |-> TRUE, star |-> star, phaseMode |-> phaseMode]
               /\ UNCHANGED <<reqs, nreq>>
    /\ UNCHANGED <<appVars, timers, sockets, srv, srvNext, delivered, lastFetch,
                   runOutcome, nevents, alerted, errors, urlVars, panelVars,
                   credVars, apiCall, writer,
                   reveals, disc>>

\* Workbench.tsx:127  the star input changes: setStar(e.target.value)
setStar(v) ==
    /\ wb.open /\ ~unmounted
    /\ v # wb.star
    /\ wb' = [wb EXCEPT !.star = v]
    /\ UNCHANGED <<jobVars, urlVars, panelVars, credVars, apiCall, writer,
                   reveals, disc>>

\* the updates Workbench hands to setQuery (Workbench.tsx:129, 136)
WbUpdates(star, on) ==
    <<Upd(<<"star">>, Str(star)), Upd(<<"tab">>, Str(<<"workbench">>)),
      Upd(<<"phase">>, IF on THEN Str(<<"true">>) ELSE Undefined)>>

\* Workbench.tsx:128-131  the Load button: setQuery, then load()
LoadClick ==
    /\ wb.open /\ ~unmounted
    /\ hidx < MaxHist
    /\ nreq < MaxReqs
    /\ pushQuery(WbUpdates(wb.star, wb.phaseMode))
    /\ wbLoad(wb.star)
    /\ UNCHANGED <<appVars, timers, sockets, srv, srvNext, delivered, lastFetch,
                   runOutcome, nevents, alerted, errors, mounted, unmounted,
                   tab, panelVars, credVars, apiCall, writer, wb, reveals, disc>>

\* Workbench.tsx:133-138  the phase checkbox: setPhaseMode(on), setQuery
phaseToggle ==
    /\ wb.open /\ ~unmounted
    /\ hidx < MaxHist
    /\ wb' = [wb EXCEPT !.phaseMode = ~wb.phaseMode]
    /\ pushQuery(WbUpdates(wb.star, ~wb.phaseMode))
    /\ UNCHANGED <<jobVars, mounted, unmounted, tab, panelVars, credVars,
                   apiCall, writer,
                   reveals, disc>>

\* a setQuery call another panel makes with Workbench's keys: the Workbench
\* link of the candidates table (RunCompare.tsx:199)
WbExternal ==
    {c \in PanelCalls : c.panel = "candidates"
                        /\ KeysOf(c.updates) = {<<"star">>, <<"tab">>}}

\* Workbench with the address bar changing under it
NextWb ==
    \/ mount
    \/ WorkbenchMount
    \/ \E v \in StarInputs : setStar(v)
    \/ LoadClick
    \/ phaseToggle
    \/ \E c \in WbExternal : panelWrite(c)
    \/ Back

SpecWb == InitWb /\ [][NextWb]_vars

(***************************************************************************)
(* url.ts scrollToTab: scroll-to-reveal of a tab's anchor                   *)
(***************************************************************************)
\* the names scrollToTab is called with: tab values of the URL and of the
\* panels' links, in either case
RevealNames ==
    { <<"workbench">>, <<"Workbench">>, <<"compare">>, <<"reliability">> }

\* String.prototype.toLowerCase, on tab names
LowerName(v) ==
    [i \in DOMAIN v |-> IF v[i] = "Workbench" THEN "workbench" ELSE v[i]]

\* the ids document.getElementById can find: those a mounted Workbench
\* renders (Workbench.tsx:123, 145-148)
DomIds ==
    IF wb.open
    THEN { <<"workbench">>, <<"plot-lc">>, <<"plot-phase">>, <<"plot-oddeven">>,
           <<"plot-centroid">> }
    ELSE {}

\* ScrollTarget without the toLowerCase of line 21
ScrollTarget_raw(dom, name) == IF name \in dom THEN <<name>> ELSE <<>>

\* url.ts:21-23  the element scrollToTab scrolls into view: <<>> for none
ScrollTarget(dom, name) ==
    LET id == LowerName(name)
    IN IF id \in dom THEN <<id>> ELSE <<>>

\* url.ts:20-24  scrollToTab(name)
scrollToTab(name) ==
    /\ mounted /\ ~unmounted
    /\ reveals' = SliceLast(Append(reveals, [name |-> name, dom |-> DomIds,
                                            target |-> ScrollTarget(DomIds, name)]),
                            2)
    /\ UNCHANGED <<jobVars, urlVars, panelVars, credVars, apiCall, writer,
                   wb, disc>>

NextReveal ==
    \/ mount
    \/ WorkbenchMount
    \/ \E n \in RevealNames : scrollToTab(n)

SpecReveal == InitWb /\ [][NextReveal]_vars

(***************************************************************************)
(* DiscoveriesTab (part_001): list reload every 5 s, selection, detail      *)
(***************************************************************************)
\* what GET /api/discoveries can list, most recent first
DiscLists == { <<>>, <<"J1">>, <<"J2", "J1">> }

\* part_001:51-55  loadDiscoveries() up to its await, called from a render
\* whose selected state was seen: the request remembers that closure's value
\* ("" for null)
loadDiscoveries(seen, caller) ==
    Fetch("discoveries", IF seen = <<>> THEN "" ELSE seen[1], caller)

\* part_001:44-91  DiscoveriesTab mounts under the discoveries tab: the mount
\* effect calls the first render's loadDiscoveries and starts the interval
DiscoveriesTabMount ==
    /\ mounted /\ ~unmounted /\ ~disc.open /\ tab = <<"discoveries">>
    /\ disc' = [open |-> TRUE, list |-> <<>>, selected |-> <<>>,
                detail |-> <<>>]
    /\ loadDiscoveries(<<>>, "mount")
    /\ UNCHANGED <<appVars, timers, sockets, srv, srvNext, delivered, lastFetch,
                   runOutcome, nevents, alerted, errors, urlVars, panelVars,
                   credVars, apiCall, writer, wb, reveals>>

\* part_001:83  the interval fires: setInterval was handed the first render's
\* loadDiscoveries, whose selected is the initial null
discTick ==
    /\ disc.open /\ ~unmounted
    /\ nreq < MaxReqs
    /\ loadDiscoveries(<<>>, "interval")
    /\ UNCHANGED <<appVars, timers, sockets, srv, srvNext, delivered, lastFetch,
                   runOutcome, nevents, alerted, errors, urlVars, panelVars,
                   credVars, apiCall, writer, wb, reveals, disc>>

\* part_001:140  the Refresh button: the current render's loadDiscoveries
discRefresh ==
    /\ disc.open /\ ~unmounted
    /\ nreq < MaxReqs
    /\ loadDiscoveries(disc.selected, "Refresh")
    /\ UNCHANGED <<appVars, timers, sockets, srv, srvNext, delivered, lastFetch,
                   runOutcome, nevents, alerted, errors, urlVars, panelVars,
                   credVars, apiCall, writer, wb, reveals, disc>>

\* GET /api/discoveries and GET /api/discoveries/{id}, answered
ServerDisc(r) ==
    /\ r \in reqs /\ r.op \in {"discoveries", "discoveryDetail"} /\ Pending(r)
    /\ IF r.op = "discoveries"
       THEN \E l \in DiscLists : Reply(r, [status |-> 200, body |-> l])
       ELSE Reply(r, [status |-> 200, body |-> <<r.arg>>])
    /\ UNCHANGED <<appVars, nreq, timers, sockets, srv, srvNext, delivered,
                   lastFetch, nevents, runOutcome, urlVars, panelVars, credVars,
                   apiCall, writer, wb, reveals, disc, alerted,
                   errors>>

\* part_001:56-62, 87-91  loadDiscoveries from its await on: setDiscoveries,
\* and setSelected(first) when the closure's selected is null; the [selected]
\* effect then loads the detail of a changed selection
loadDiscoveriesResume(r) ==
    /\ r \in reqs /\ r.op = "discoveries" /\ ~Pending(r)
    /\ LET list == r.resp.body
           next == IF r.arg = "" /\ Len(list) > 0 THEN <<list[1]>>
                  ELSE disc.selected
       IN /\ disc' = [disc EXCEPT !.list = list, !.selected = next]
          /\ IF next # disc.selected
             THEN /\ reqs' = (reqs \ {r}) \cup
                       {Req(nreq + 1, "discoveryDetail", next[1], 0, "loadDetail")}
                  /\ nreq' = nreq + 1
             ELSE reqs' = reqs \ {r} /\ nreq' = nreq
    /\ UNCHANGED <<appVars, timers, sockets, srv, srvNext, delivered, lastFetch,
                   runOutcome, nevents, alerted, errors, urlVars, panelVars,
                   credVars, apiCall, writer, wb, reveals>>

\* part_001:169  a row is clicked: setSelected(d.job_id); the [selected]
\* effect loads the detail of a changed selection
selectDiscovery(i) ==
    /\ disc.open /\ ~unmounted
    /\ i \in 1..Len(disc.list)
    /\ disc.selected # <<disc.list[i]>>
    /\ nreq < MaxReqs
    /\ disc' = [disc EXCEPT !.selected = <<disc.list[i]>>]
    /\ Fetch("discoveryDetail", disc.list[i], "loadDetail")
    /\ UNCHANGED <<appVars, timers, sockets, srv, srvNext, delivered, lastFetch,
                   runOutcome, nevents, alerted, errors, urlVars, panelVars,
                   credVars, apiCall, writer, wb, reveals>>

\* part_001:70-75  loadDetail from its await on: setDetail(data)
discDetailResume(r) ==
    /\ r \in reqs /\ r.op = "discoveryDetail" /\ ~Pending(r)
    /\ reqs' = reqs \ {r}
    /\ disc' = [disc EXCEPT !.detail = r.resp.body]
    /\ UNCHANGED <<appVars, nreq, timers, sockets, srv, srvNext, delivered,
                   lastFetch, runOutcome, nevents, alerted, errors, urlVars,
                   panelVars, credVars, apiCall, writer, wb, reveals>>

NextDisc ==
    \/ mount
    \/ DiscoveriesTabMount
    \/ discTick
    \/ discRefresh
    \/ \E r \in reqs : ServerDisc(r)
    \/ \E r \in reqs : loadDiscoveriesResume(r)
    \/ \E i \in 1..2 : selectDiscovery(i)
    \/ \E r \in reqs : discDetailResume(r)

SpecDisc == Init /\ [][NextDisc]_vars

\* the address bar alone: page loads, panel and tab writes, back and forward
NextUrl ==
    \/ mount
    \/ \E w \in Writes : setQuery(w)
    \/ \E t \in Tabs : appSetQuery(<<Upd(<<"tab">>, Str(t))>>)
    \/ Back
    \/ Forward

SpecUrl ==
    (\E u \in LoadUrls : InitAt(u)) /\ [][NextUrl]_vars

(***************************************************************************)
(* Properties                                                              *)
(***************************************************************************)
ListReqs == {r \in reqs : r.op = "listJobs"}

LiveSockets == {i \in 1..Len(sockets) : sockets[i].st # "closed"}

\* C1: after every message the log buffer holds at most LogCap lines and is
\* exactly the last min(N, LogCap) of the N lines delivered since the buffer
\* was last reset, in arrival order.
C1_BufferCap ==
    LET N == Len(delivered)
        m == Min(N, LogCap)
    IN /\ Len(logs) <= LogCap
       /\ logs = [i \in 1..m |-> delivered[N - m + i]]

\* C1 witness: more than LogCap lines were delivered and the buffer is full
C1_Witness == Len(delivered) > LogCap /\ Len(logs) = LogCap

\* C2: at most one log WebSocket is live (connecting or open) in any state.
C2_OneLiveConnection == Cardinality(LiveSockets) <= 1

\* C3: every line in the log buffer was delivered by the stream of the
\* currently active job.
C3_NoInterleavedLogs ==
    \A i \in 1..Len(logs) : active # <<>> /\ logs[i][1] = active[1].job_id

\* C4: a 409 answer makes startJob fail with the duplicate-job error carrying
\* the job id of the response body, distinct from the generic failure, and
\* run() then leaves the active job, the log buffer, the job list and the
\* sockets as they were.
C4_DuplicateConflict ==
    [][\A r \in reqs :
          (runResume(r) /\ r.resp.status = 409) =>
             /\ startJob(r.resp) =
                   Throw(<<"Duplicate running job (id=", r.resp.body[1], ")">>)
             /\ startJob(r.resp) # startJob(Failure)
             /\ runOutcome' = <<startJob(r.resp)>>
             /\ UNCHANGED <<active, logs, jobs, sockets>>]_vars

\* C4 witness: a run() has ended on the duplicate-job error naming a job the
\* backend holds, while an earlier run() is attached to its job
C4_Witness ==
    /\ runOutcome # <<>>
    /\ runOutcome[1].kind = "throw"
    /\ runOutcome[1].message[1] = "Duplicate running job (id="
    /\ \E i \in 1..Len(srv) : srv[i].job_id = runOutcome[1].message[2]
    /\ active # <<>>

\* C8: once no job-list fetch is in flight, the local list is the list
\* returned to the most recently issued fetch.
C8_RefreshConverges ==
    (ListReqs = {} /\ lastFetch # <<>> /\ Ok(lastFetch[1].resp))
        => jobs = lastFetch[1].resp.body

\* C9: a step changes the local job list only if it is the continuation of a
\* job-list fetch that succeeded; the list then is the fetched one. So the
\* Cancel handler, run(), log lines and stats never touch it.
C9_ListOnlyByRefresh ==
    [][jobs' # jobs =>
          \E r \in ListReqs :
             /\ refreshResume(r)
             /\ Ok(r.resp)
             /\ jobs' = r.resp.body]_vars

\* C9 witness: a cancel has returned (its refresh timer is pending), the
\* backend shows the job cancelled and the local list still shows it as it was
C9_Witness ==
    /\ timers > 0
    /\ \E i \in 1..Len(srv), k \in 1..Len(jobs) :
          /\ srv[i].state = "cancelled"
          /\ jobs[k].job_id = srv[i].job_id
          /\ jobs[k].state \in {"queued", "running"}

\* C10: when refresh() resumes, a fetch that succeeded makes the local list
\* exactly the fetched list and a fetch that failed leaves it as it was.
C10_RefreshReplaces ==
    [][\A r \in reqs :
          refreshResume(r) =>
             jobs' = IF Ok(r.resp) THEN r.resp.body ELSE jobs]_vars

\* C10 witness: the local list shows a job cancelled, so the entry that showed
\* it queued or running (the Cancel button's condition) was replaced
C10_Witness == \E k \in 1..Len(jobs) : jobs[k].state = "cancelled"

\* every value the query holds for name k, in order
ParamsGetAll(qs, k) ==
    LET hits == SelectSeq(qs, LAMBDA x : x[1] = k)
    IN [i \in 1..Len(hits) |-> hits[i][2]]

\* the names the query holds
NamesOf(qs) == {qs[i][1] : i \in 1..Len(qs)}

\* whether character c occurs in the serialized query string
InSearch(c) == \E i \in 1..Len(Location.search) : Location.search[i] = c

\* whether the step from the current location kept what updates do not name
Merged(updates) ==
    /\ \A k \in NamesOf(ParseQuery(hist[hidx].search)) \ KeysOf(updates) :
          ParamsGetAll(ParseQuery(hist'[hidx'].search), k)
             = ParamsGetAll(ParseQuery(hist[hidx].search), k)
    /\ NamesOf(ParseQuery(hist'[hidx'].search))
          \subseteq NamesOf(ParseQuery(hist[hidx].search)) \cup KeysOf(updates)

\* C5: a setQuery call (a panel's, or a tab button's) leaves every name of the
\* query that its updates do not name, unknown names included, with the values
\* it had, and adds no name but those of its updates.
C5_WritesMerge ==
    [][/\ \A w \in Writes : setQuery(w) => Merged(w)
       /\ \A t \in Tabs :
             appSetQuery(<<Upd(<<"tab">>, Str(t))>>)
                => Merged(<<Upd(<<"tab">>, Str(t))>>)]_vars

\* C5 witness: {star:TIC12345, tab:workbench} then {run:RUN-1, tab:reliability}
\* have been written: tab=reliability, star=TIC12345 and run=RUN-1 all hold
C5_Witness ==
    /\ hidx = 3
    /\ ParamsGet(ParseQuery(hist[2].search), <<"tab">>) = << <<"workbench">> >>
    /\ ParamsGet(ParseQuery(hist[2].search), <<"star">>) = << <<"TIC12345">> >>
    /\ ParamsGet(ParseQuery(hist[2].search), <<"run">>) = <<>>
    /\ getParam(<<"tab">>) = << <<"reliability">> >>
    /\ getParam(<<"star">>) = << <<"TIC12345">> >>
    /\ getParam(<<"run">>) = << <<"RUN-1">> >>

\* C6: after any sequence of setQuery calls, getParam(k) is the value last
\* written for k when that value was a non-empty string, and is undefined, with
\* k nowhere in the query string, when it was "" or undefined.
C6_RoundTrip ==
    \A k \in Keys :
       written[k] # <<>> =>
          LET v == written[k][1]
          IN IF v.some /\ v.s # <<>>
             THEN getParam(k) = <<v.s>>
             ELSE getParam(k) = <<>> /\ ~InSearch(k[1])

\* C6 witness: a value with reserved characters was written and read back,
\* over an earlier value of the same key, and a key was written away
C6_Witness ==
    /\ written[<<"run">>] = <<Str(<<"R", " ", "#", "&">>)>>
    /\ getParam(<<"run">>) = << <<"R", " ", "#", "&">> >>
    /\ ParamsGet(ParseQuery(hist[1].search), <<"run">>) = << <<"RUN-1">> >>
    /\ written[<<"star">>] = <<Str(<<>>)>>
    /\ written[<<"phase">>] = <<Undefined>>

\* C7: every setQuery call (a panel's or a tab button's) adds exactly one
\* history entry after the current one and makes it current; the entries up
\* to the old current one stay as they were; the new entry has the old
\* pathname and fragment and the rebuilt query.
C7_HistoryPushed ==
    [][((\E w \in Writes : setQuery(w))
           \/ (\E t \in Tabs : appSetQuery(<<Upd(<<"tab">>, Str(t))>>))) =>
          /\ hidx' = hidx + 1
          /\ Len(hist') = hidx + 1
          /\ SubSeq(hist', 1, hidx) = SubSeq(hist, 1, hidx)
          /\ hist'[hidx'].pathname = Location.pathname
          /\ hist'[hidx'].hash = Location.hash
          /\ \A k \in Keys : written'[k] # written[k] =>
                ParamsGet(ParseQuery(hist'[hidx'].search), k)
                   = IF written'[k][1].some /\ written'[k][1].s # <<>>
                     THEN <<written'[k][1].s>> ELSE <<>>]_vars

\* C7 witness: two writes after a load with a fragment; the loaded entry and
\* the first write's entry are both still there, behind the current one
C7_Witness ==
    /\ hidx = 3
    /\ Len(hist) = 3
    /\ hist[1].hash = <<"#", "top">>
    /\ hist[3].hash = <<"#", "top">>
    /\ hist[1].search # hist[2].search
    /\ hist[2].search # hist[3].search

\* C11: the close event of a log stream issues exactly one job-list fetch, on
\* behalf of that closure, and nothing else issues such a fetch; a closed
\* stream stays closed, so it closes once; no stream event (open, message,
\* close) changes the local job list or any job of the backend.
C11_ClosureReconciles ==
    [][/\ \A i \in 1..Len(sockets) :
             WsClose(i) =>
                /\ reqs' = reqs \cup {Req(nreq + 1, "listJobs", "", 0, "close")}
                /\ nreq' = nreq + 1
                /\ jobs' = jobs /\ srv' = srv
       /\ (\E r \in reqs' : r.k = "close" /\ r.id > nreq) =>
             \E i \in 1..Len(sockets) : WsClose(i)
       /\ \A i \in 1..Len(sockets) :
             sockets[i].st = "closed" => sockets'[i].st = "closed"
       /\ \A i \in 1..Len(sockets) :
             (WsOpen(i) \/ WsMessage(i, MaxMsgs)) => jobs' = jobs /\ srv' = srv]_vars

\* C11 witness: a stream has closed and the fetch issued for its closure is in
\* flight
C11_Witness ==
    /\ \E i \in 1..Len(sockets) : sockets[i].st = "closed"
    /\ \E r \in ListReqs : r.k = "close" /\ Pending(r)

\* C12: when startJob returns a job, run() makes it the active job, empties
\* the log buffer and opens exactly one log stream, keyed by that job's id and
\* born connecting, after the streams that already exist.
C12_SuccessfulStart ==
    [][\A r \in reqs :
          (runResume(r) /\ Ok(r.resp)) =>
             LET j == r.resp.body[1]
             IN /\ active' = <<j>>
                /\ logs' = <<>>
                /\ sockets' = Append(sockets, [job_id |-> j.job_id,
                                               st |-> "connecting", n |-> 0])]_vars

\* C12 witness: a second run() has just attached: its job is active, its
\* stream is the newest one and still connecting, and the buffer is empty
\* although the first stream had delivered a line
C12_Witness ==
    /\ Len(sockets) = 2
    /\ sockets[1].n > 0
    /\ sockets[2].st = "connecting"
    /\ active # <<>>
    /\ active[1].job_id = sockets[2].job_id
    /\ logs = <<>>

\* C13: the Clear All handler first sends the clear request and nothing else;
\* when that request succeeded it issues one refresh, and only then; when it
\* failed it issues no request, leaves the job list as it was and alerts the
\* error.
C13_ClearAll ==
    [][/\ clearClick =>
             /\ reqs' = reqs \cup {Req(nreq + 1, "clearAllJobs", "", 0, "clear")}
             /\ jobs' = jobs
       /\ \A r \in reqs :
             clearResume(r) =>
                IF Ok(r.resp)
                THEN /\ reqs' = (reqs \ {r})
                                   \cup {Req(nreq + 1, "listJobs", "", 0, "clear")}
                     /\ jobs' = jobs
                ELSE /\ reqs' = reqs \ {r}
                     /\ nreq' = nreq
                     /\ jobs' = jobs
                     /\ alerted' = <<"Error clearing jobs: ", "clearJobs failed">>
       /\ (\E q \in reqs' : q.k = "clear" /\ q.op = "listJobs" /\ q.id > nreq) =>
             \E r \in reqs : clearResume(r) /\ Ok(r.resp)]_vars

\* C13 witness: a clear has failed: its error is on screen, no refresh was
\* issued for it, and the list still shows the job the backend holds
C13_Witness ==
    /\ alerted = <<"Error clearing jobs: ", "clearJobs failed">>
    /\ jobs # <<>>
    /\ jobs = srv
    /\ \A r \in reqs : r.k # "clear"

\* C14: a stats fetch that fails leaves the stats shown, the job list, every
\* other request in flight and what the next tick depends on as they were;
\* and a tick fetches the stats only after its own job-list refresh has
\* succeeded and been applied, so the failure comes after that update.
C14_PollIndependence ==
    [][/\ \A r \in reqs :
             (statsResume(r) /\ ~Ok(r.resp)) =>
                /\ stats' = stats
                /\ jobs' = jobs
                /\ reqs' = reqs \ {r}
                /\ UNCHANGED <<mounted, nevents, timers>>
       /\ (\E q \in reqs' : q.op = "orchStats" /\ q.id > nreq) =>
             \E r \in reqs :
                /\ refreshResume(r)
                /\ r.k = "tick" /\ Ok(r.resp)
                /\ jobs' = r.resp.body]_vars

\* C14 witness: a stats fetch has failed and was caught; the stats of an
\* earlier tick are still shown and the job list shows the backend's job
C14_Witness ==
    /\ [at |-> "stats", fate |-> "caught"] \in errors
    /\ stats # <<>>
    /\ jobs # <<>>
    /\ jobs = srv
    /\ reqs = {}

\* C15: no error thrown inside a poll tick escapes the tick, and while the
\* dashboard is mounted (and the model's event budget lasts) the next tick
\* can start whatever has failed so far.
C15_TickSwallows ==
    /\ \A e \in errors : e.at = "tick" => e.fate # "escaped"
    /\ (mounted /\ ~unmounted /\ nevents < MaxEvents) => ENABLED Tick

\* C16: whenever the job-list refresh of a tick resumes, whether the fetch
\* succeeded or failed, the tick goes on to issue its stats fetch.
C16_TickIndependent ==
    [][\A r \in reqs :
          (refreshResume(r) /\ r.k = "tick") =>
             \E q \in reqs' : q.op = "orchStats" /\ q.id = nreq + 1]_vars

\* C17: the poll loop starts with the mount (no tick before it); once App has
\* unmounted no tick starts, and no step issues a job-list or stats fetch on
\* behalf of a tick.
C17_LoopStops ==
    [][/\ (~mounted \/ unmounted) => ~Tick
       /\ unmounted => ~\E q \in reqs' : q.k = "tick" /\ q.id > nreq]_vars

\* the ids the backend can have given out
JobIds == 1..(MaxEvents + 1)

TerminalAt(id) ==
    \E i \in 1..Len(srv) : srv[i].job_id = id /\ srv[i].state \in Terminal

ShownTerminal(id) ==
    \E k \in 1..Len(jobs) :
       /\ jobs[k].job_id = id
       /\ jobs[k].state \in Terminal
       /\ \E i \in 1..Len(srv) : srv[i] = jobs[k]

PanelFetches == {r \in reqs : r.op \in PanelOps}

C19_StaleDiscarded ==
    PanelFetches = {} =>
        /\ (panel = <<"history">> /\ Truthy(sel)) => detail = sel[1]
        /\ (panel = <<"reliability">> /\ relRun # <<>>) =>
               plots.cal = relRun /\ plots.pr = relRun

\* C20: credential attachment. Every request that leaves the page carries the
\* X-API-Key header with the key stored under chiss_api_key at that moment,
\* and carries no X-API-Key header at all when no key (or the empty string)
\* is stored.
C20_CredentialAttached ==
    [][\A r \in reqs' : r.id > nreq =>
          LET item == storage'["chiss_api_key"]
          IN r.hdr = IF item # <<>> /\ item[1] # <<>> THEN Header(item[1])
                     ELSE NoHeader]_vars

\* C21: non-2xx responses become request errors. For a non-2xx response (409
\* of startJob aside) each api.ts function throws an error that carries the
\* HTTP status code and returns no body; for a 2xx response it returns.
CarriesStatus(out, resp) == Len(out.message) >= 2 /\ out.message[2] = resp.status

C21_RequestErrors ==
    apiCall # <<>> =>
        LET c == apiCall[1]
        IN /\ Ok(c.resp) => c.out.kind = "return"
           /\ (~Ok(c.resp) /\ ~(c.fn = "startJob" /\ c.resp.status = 409)) =>
                 c.out.kind = "throw" /\ CarriesStatus(c.out, c.resp)
           /\ (c.fn = "startJob" /\ c.resp.status = 409) => c.out.kind = "throw"

\* C22: the address bar and the history stack are mutated only through
\* url.ts setQuery. Every step that changes the history entries or the
\* current entry is a setQuery call of a panel, or the user going back or
\* forward.
C22_OnlyThroughStore ==
    [][(hist' # hist \/ hidx' # hidx) =>
          \/ \E w \in Writes : setQuery(w)
          \/ Back
          \/ Forward]_vars

\* C23: panel key ownership. Every view-state write of a panel names exactly
\* the keys the panel owns plus tab, and its tab value names that panel.
C23_OwnKeysOnly ==
    writer # <<>> =>
        LET c == writer[1]
        IN /\ KeysOf(c.updates) = Owns(c.panel) \cup {<<"tab">>}
           /\ ValueOf(c.updates, <<"tab">>) = Str(<<c.panel>>)

\* C24: absent keys have no implicit default except tab. When App mounts at a
\* URL without a tab, the tab it shows is the landing tab and the tab it
\* leaves in the URL, if any, is that same landing tab; and a key other than
\* tab that is absent from the URL appears in it only with a value a setQuery
\* caller passed.
LandingTab == <<"discoveries">>

ParamAfter(k) == ParamsGet(ParseQuery(hist'[hidx'].search), k)

C24_SingleLanding ==
    [][/\ (mount /\ OrElse(getParam(<<"tab">>), <<>>) = <<>>) =>
              /\ tab' = LandingTab
              /\ ParamAfter(<<"tab">>) \in {<<>>, <<LandingTab>>}
       /\ \A k \in Keys \ {<<"tab">>} :
              (~Back /\ ~Forward /\ getParam(k) = <<>> /\ ParamAfter(k) # <<>>)
                  => written'[k] = <<Str(ParamAfter(k)[1])>>]_vars

\* C25: panels follow external view-state changes. After a back or forward
\* navigation or another panel's write, the star and phase of a mounted
\* Workbench and the run of a mounted ReliabilityPanel equal the values in
\* the URL.
External == Back \/ Forward \/ \E c \in WbExternal : panelWrite(c)

C25_FollowsUrl ==
    [][External =>
          /\ wb.open =>
                /\ wb'.star = OrElse(ParamAfter(<<"star">>), <<>>)
                /\ wb'.phaseMode =
                      (ToLowerCase(OrElse(ParamAfter(<<"phase">>), <<>>))
                          = <<"true">>)
          /\ panel = <<"reliability">> =>
                relRun' = OrElse(ParamAfter(<<"run">>), <<>>)]_vars

\* C29: Workbench deep link. When the Workbench mounts at a URL with a
\* non-empty star, its star state is that star and the mount itself issues
\* the load of that star's data.
C29_DeepLinkLoads ==
    [][(WorkbenchMount /\ Truthy(getParam(<<"star">>))) =>
          /\ wb'.star = getParam(<<"star">>)[1]
          /\ \E r \in reqs' : /\ r.id > nreq
                              /\ r.op = "workbenchIndex"
                              /\ r.arg = getParam(<<"star">>)[1][1]]_vars

\* C26: idempotent reveal. Every scrollToTab call selects the element whose
\* id is the lower-cased name, or nothing when no such element exists; two
\* calls in a row with the same name over the same document select the same
\* target; and a call changes no view state.
RevealTargets ==
    /\ \A i \in 1..Len(reveals) :
          LET c == reveals[i]
          IN c.target = IF LowerName(c.name) \in c.dom
                        THEN <<LowerName(c.name)>> ELSE <<>>
    /\ (Len(reveals) = 2 /\ reveals[1].name = reveals[2].name
            /\ reveals[1].dom = reveals[2].dom)
          => reveals[1].target = reveals[2].target

\* a scrollToTab call leaves the address bar, the history and the tab alone
RevealKeepsView ==
    reveals' # reveals =>
        hist' = hist /\ hidx' = hidx /\ tab' = tab /\ written' = written

StreamRank(st) ==
    CASE st = "connecting" -> 1 [] st = "open" -> 2 [] st = "closed" -> 3

C27_StreamLifecycle ==
    [][/\ Len(sockets') >= Len(sockets)
       /\ \A i \in 1..Len(sockets) :
             /\ sockets'[i].job_id = sockets[i].job_id
             /\ StreamRank(sockets'[i].st) >= StreamRank(sockets[i].st)
       /\ Len(sockets') > Len(sockets) =>
             /\ Len(sockets') = Len(sockets) + 1
             /\ sockets'[Len(sockets')].st = "connecting"
             /\ \E r \in reqs \ reqs' :
                   /\ r.op = "startJob" /\ Ok(r.resp)
                   /\ sockets'[Len(sockets')].job_id = r.resp.body[1].job_id]_vars

\* a stream that connected, delivered a line and closed
C27_Witness ==
    \E i \in 1..Len(sockets) : sockets[i].st = "closed" /\ sockets[i].n >= 1

\* C28: discoveries auto-selection happens only when nothing is selected.
\* Once a discovery is selected, no periodic reload of the discoveries list
\* changes the selection.
C28_SelectionKept ==
    [][((\E r \in reqs : r.k = "interval" /\ loadDiscoveriesResume(r))
          /\ disc.selected # <<>>)
          => disc'.selected = disc.selected]_vars

\* C30: the displayed tab matches the URL. In every state after App has
\* mounted, the tab App renders equals the tab parameter of the URL, or the
\* landing tab when the URL has none.
C30_TabMatchesUrl ==
    mounted => tab = OrElse(getParam(<<"tab">>), LandingTab)

====
